---- MODULE Spec2Model ----
(***************************************************************************)
(* Model of scripts/extract_jira.py: the paginated issue fetcher           *)
(* (fetch_all_issues), the filter resolver (get_filter_jql,                *)
(* _ensure_bounded_jql, fetch_filter_issues), the normalizer/aggregator    *)
(* (normalize_issue, aggregate_for_dashboard) and the pipeline main().     *)
(*                                                                         *)
(* The program is single threaded.  Its only interaction points are the    *)
(* blocking requests.get calls, so an action runs from one HTTP exchange   *)
(* to the next: "request" actions end where requests.get is entered,       *)
(* "response" actions start where it returns.  The JIRA server is the      *)
(* environment: it chooses status, body, page and continuation cursor.     *)
(***************************************************************************)
EXTENDS Integers, Sequences, FiniteSets, TLC

\* ------------------------------------------------------------ bounds
\* Servers hold 0..MaxN records (plus one large store, BigN).
MaxN == 3
\* max_results arguments tried on a direct call: -1..MaxM (plus large ones).
MaxM == 3
\* The server's own page size limit is one of 1..MaxPage (or a large one).
MaxPage == 2
\* Length of the configured filter identifier list.
MaxFilters == 2
\* Length of the issue lists handed to aggregate_for_dashboard.
MaxAggLen == 3

\* ------------------------------------------------- program constants
max_per_page == 100
DEFAULT_MAX_RESULTS == 1000
FILTER_MAX_RESULTS == 500

\* Python values that have no TLA+ counterpart.
NoToken == 0                 \* next_page_token = None
JqlNone == "<None>"          \* jql = None
Absent == "<absent>"         \* a key missing from a dict (or mapped to null)

JIRA_JQL_DEFAULT == "updated >= -90d ORDER BY updated DESC"

Min(a, b) == IF a <= b THEN a ELSE b
Max(a, b) == IF a >= b THEN a ELSE b

\* Python slice s[:n] of a list: n >= 0 keeps the first n items, n < 0 drops
\* the last -n items.
PySliceTo(s, n) ==
    IF n >= 0 THEN SubSeq(s, 1, Min(n, Len(s)))
    ELSE SubSeq(s, 1, Max(Len(s) + n, 0))

IsPrefix(p, s) == Len(p) <= Len(s) /\ \A i \in 1..Len(p) : p[i] = s[i]

\* dict.get(k, default) and d[k] = v on dicts modelled as functions.
DictGet(d, k, default) == IF k \in DOMAIN d THEN d[k] ELSE default
DictSet(d, k, v) == [x \in (DOMAIN d) \cup {k} |-> IF x = k THEN v ELSE d[x]]
EmptyDict == [x \in {} |-> 0]

RECURSIVE SumOver(_, _)
SumOver(d, keys) ==
    IF keys = {} THEN 0
    ELSE LET k == CHOOSE x \in keys : TRUE IN d[k] + SumOver(d, keys \ {k})
DictSum(d) == SumOver(d, DOMAIN d)

\* ------------------------------------------------------------ server
\* The records the server holds, in upstream order.  Record i is a raw issue:
\* a key and a "fields" sub-record in which any sub-field may be missing.
\* One record (server_surrogate, 0 for none) has a summary that holds a lone
\* surrogate: the JSON escape "\\ud83d", which resp.json() decodes to a str
\* that utf-8 cannot encode.
VARIABLE server_surrogate
LoneSurrogate == "cut emoji <U+D83D>"
SurrogatePlaces == {0, 2}

StatusNames == <<"Open", "Done", Absent>>
TypeNames == <<"Bug", Absent, "Task", "Bug">>
PriorityNames == <<Absent, "High">>
AssigneeNames == <<"ana", "ana", Absent, "rui", "rui">>
Pick(names, i) == names[(i % Len(names)) + 1]

RawIssue(i) ==
    [key |-> i,
     fields |-> [summary |-> IF i = server_surrogate THEN LoneSurrogate
                             ELSE IF i % 2 = 0 THEN Absent ELSE "s",
                 status |-> Pick(StatusNames, i),
                 issuetype |-> Pick(TypeNames, i),
                 priority |-> Pick(PriorityNames, i),
                 assignee |-> Pick(AssigneeNames, i),
                 project |-> IF i % 3 = 0 THEN Absent ELSE "ABC",
                 created |-> "2024-01-01",
                 updated |-> IF i % 4 = 0 THEN Absent ELSE "2024-02-02"]]

\* The page a cursor server serves from position pos: k records in order.
ServerPage(pos, k) == [i \in 1..k |-> RawIssue(pos + i - 1)]

\* The position a request addresses: its cursor, or the start.
CursorPos(token) == IF token = NoToken THEN 1 ELSE token

\* HTTP statuses the server answers a search with.
SearchStatuses == {200, 304, 500}
\* HTTP statuses the server answers a filter lookup with.
FilterStatuses == {200, 404}
\* Saved filters' JQL as the server reports it (None: no "jql" in the body).
FilterBodies == {JqlNone, "", "project = ABC", "updated >= -7d"}
FilterIds == {"10001", "10002"}

\* ------------------------------------------- requests library (external)
\* Response.raise_for_status(): raises HTTPError for 4xx and 5xx statuses
\* only; for every other status it returns normally.
RaisesForStatus(status) == 400 <= status /\ status < 600

\* ----------------------------------------------------------- helpers
\* A check that forgets the API token.
ConfigOKNoToken(url, email, token) == url /\ email

\* line 54: all([JIRA_URL, JIRA_EMAIL, JIRA_API_TOKEN])
ConfigOK(url, email, token) == url /\ email /\ token

\* lines 52-53
DefaultJql(j) == IF j = JqlNone THEN JIRA_JQL_DEFAULT ELSE j

\* A loop that is not bounded by max_results.
WhileCondUnbounded(n, maxr) == TRUE

\* line 67: the while condition of the cursor loop
WhileCond(n, maxr) == n < maxr

\* line 70
PageSizeParam(n, maxr) == Min(max_per_page, maxr - n)

\* Parameters that never carry the continuation cursor.
CursorParamsNoToken(j, n, maxr, token) ==
    [jql |-> j, maxResults |-> PageSizeParam(n, maxr), nextPageToken |-> NoToken]

\* lines 68-73: the query parameters of a cursor-mode request
CursorParams(j, n, maxr, token) ==
    [jql |-> j, maxResults |-> PageSizeParam(n, maxr), nextPageToken |-> token]

\* Accumulating each page in front of the earlier ones.
ExtendInFront(all, page) == page \o all

\* line 91
Extend(all, page) == all \o page

\* line 93
BreakCond(token, page) == token = NoToken \/ page = <<>>

\* A return without the final cap.
ReturnUncapped(all, maxr) == all

\* line 116
ReturnSlice(all, maxr) == PySliceTo(all, maxr)

\* A lookup that reads the body whatever the status.
FilterJqlAnyStatus(status, body) == body

\* lines 124-127: get_filter_jql's result from the response
FilterJql(status, body) == IF status # 200 THEN JqlNone ELSE body

\* line 141: not jql
JqlFalsy(j) == j = JqlNone \/ j = ""

\* lines 132-133: does the lower-cased JQL mention updated/created/resolved
HasDateKeyword(j) ==
    j \in {"updated >= -7d", JIRA_JQL_DEFAULT, "(project = ABC) AND updated >= -90d"}

\* lines 130-135
EnsureBoundedJql(j) ==
    IF HasDateKeyword(j) THEN j
    ELSE IF j = "project = ABC" THEN "(project = ABC) AND updated >= -90d"
    ELSE j

\* x.get("name", default) on a sub-record that may be missing
NameOr(v, default) == IF v = Absent THEN default ELSE v

\* lines 146-166
normalize_issue(issue) ==
    [key |-> issue.key,
     summary |-> NameOr(issue.fields.summary, ""),
     status |-> NameOr(issue.fields.status, "Unknown"),
     issuetype |-> NameOr(issue.fields.issuetype, "Unknown"),
     priority |-> NameOr(issue.fields.priority, "None"),
     assignee |-> NameOr(issue.fields.assignee, "Unassigned"),
     project |-> NameOr(issue.fields.project, ""),
     created |-> NameOr(issue.fields.created, ""),
     updated |-> NameOr(issue.fields.updated, ""),
     url |-> <<"JIRA_URL", "/browse/", issue.key>>]

NormalizeAll(raw) == [i \in 1..Len(raw) |-> normalize_issue(raw[i])]

\* An increment that forgets the count so far.
IncrementReset(d, k) == DictSet(d, k, 1)

\* lines 182-185: d[k] = d.get(k, 0) + 1
Increment(d, k) == DictSet(d, k, DictGet(d, k, 0) + 1)

\* lines 171-174
EmptyAggregate ==
    [by_status |-> EmptyDict, by_type |-> EmptyDict,
     by_assignee |-> EmptyDict, by_priority |-> EmptyDict]

\* lines 176-185: one iteration of the aggregation loop
AggregateStep(acc, issue) ==
    [by_status |-> Increment(acc.by_status, issue.status),
     by_type |-> Increment(acc.by_type, issue.issuetype),
     by_assignee |-> Increment(acc.by_assignee, issue.assignee),
     by_priority |-> Increment(acc.by_priority, issue.priority)]

\* lines 187-193
AggregateResult(acc, list) ==
    [by_status |-> acc.by_status, by_type |-> acc.by_type,
     by_assignee |-> acc.by_assignee, by_priority |-> acc.by_priority,
     total |-> Len(list)]

RECURSIVE AggregateFold(_, _, _)
AggregateFold(acc, list, i) ==
    IF i > Len(list) THEN acc
    ELSE AggregateFold(AggregateStep(acc, list[i]), list, i + 1)

\* lines 169-193
aggregate_for_dashboard(list) ==
    AggregateResult(AggregateFold(EmptyAggregate, list, 1), list)

\* line 219
LastUpdated(raw) ==
    IF raw # <<>> THEN NameOr(raw[1].fields.updated, "") ELSE "utcnow"

\* line 204: the identifiers of JIRA_FILTER_IDS, blanks dropped
NonBlank(x) == x # ""
ParseFilterIds(raw) == SelectSeq(raw, NonBlank)

\* No try/except in main (lines 196-232): an exception raised in a fetch
\* leaves main; on a direct call there is no main to leave.
Unwind(m) == IF m = "idle" THEN "idle" ELSE "raised"

\* ------------------------------------------------------------- state
VARIABLES
    \* configuration (lines 31-38), as truthiness of each setting
    url_set, email_set, token_set, api_version, JIRA_FILTER_IDS,
    \* the server: how many records it holds, and its own page size limit
    server_n, server_page,
    \* fetch_all_issues: position, arguments and locals
    fpc, jql, max_results, all_issues, next_page_token, req, result, exc,
    \* history of the current fetch_all_issues call
    nreq, received, last_resp, all_ok, well_behaved, nonempty_pages,
    \* main: position, locals, files of DATA_DIR, process exit code
    mpc, data_dir, issues, filter_ids, fidx, filter_results,
    issues_json, filters_json, exit_code,
    \* history of the run: HTTP requests issued, per filter the status of its
    \* lookup and the number of search requests issued for it
    http_total, fstatus, fsearch,
    \* aggregate_for_dashboard: position, argument, loop index, locals, result
    agg_pc, agg_in, agg_i, agg_acc, agg_out

cfgVars == <<url_set, email_set, token_set, api_version, JIRA_FILTER_IDS,
             server_n, server_page, server_surrogate>>
fetchVars == <<fpc, jql, max_results, all_issues, next_page_token, req, result, exc>>
histVars == <<nreq, received, last_resp, all_ok, well_behaved, nonempty_pages>>
mainVars == <<mpc, data_dir, issues, filter_ids, fidx, filter_results,
              issues_json, filters_json, exit_code>>
runVars == <<http_total, fstatus, fsearch>>
aggVars == <<agg_pc, agg_in, agg_i, agg_acc, agg_out>>
vars == <<cfgVars, fetchVars, histVars, mainVars, runVars, aggVars>>

NoReq == [jql |-> "", maxResults |-> 0, nextPageToken |-> NoToken]
NoResp == [status |-> 0, json |-> FALSE, empty |-> TRUE, nextPageToken |-> NoToken]

\* A file of DATA_DIR as the run found it: missing, or left by an earlier run.
OldFiles == {[state |-> "absent"], [state |-> "old"]}
\* The servers a whole run is tried against, as <<records, page limit>>: an
\* empty one, and one that serves two records in pages of one or of two.
MainServers == {<<0, 1>>, <<2, 1>>, <<2, 2>>}
Written(content) == [state |-> "written", content |-> content]
\* A file that open(path, "w") truncated and into which json.dump wrote only
\* the part of the document before the string it could not encode.
CutOff == [state |-> "cut_off"]

\* f.write of a str into a file opened with encoding="utf-8"
Utf8Encodable(str) == str # LoneSurrogate

\* Are all the strings json.dump writes for a list of normalized issues
\* encodable (ensure_ascii=False writes them unescaped)
IssuesEncodable(list) ==
    \A i \in 1..Len(list) :
        /\ Utf8Encodable(list[i].summary)
        /\ Utf8Encodable(list[i].status)
        /\ Utf8Encodable(list[i].issuetype)
        /\ Utf8Encodable(list[i].priority)
        /\ Utf8Encodable(list[i].assignee)
        /\ Utf8Encodable(list[i].project)
        /\ Utf8Encodable(list[i].created)
        /\ Utf8Encodable(list[i].updated)

\* lines 222-223, 230-231: open(path, "w", encoding="utf-8") and json.dump
DumpedFile(content, encodable) == IF encodable THEN Written(content) ELSE CutOff

\* Inputs of the direct calls.
BigN == 3 * max_per_page
ServerSizes == (0..MaxN) \cup {BigN}
ServerPageLimits == (1..MaxPage) \cup {max_per_page, max_per_page + 1}
MaxResultsInputs ==
    (-1..MaxM) \cup {max_per_page \div 2, max_per_page + 1, DEFAULT_MAX_RESULTS}
JqlInputs == {JqlNone, "project = ABC"}
FilterIdLists ==
    UNION {[1..n -> FilterIds \cup {""}] : n \in 0..MaxFilters}
AggIssues == {normalize_issue(RawIssue(i)) : i \in 1..(MaxAggLen + 1)}
AggInputs == UNION {[1..n -> AggIssues] : n \in 0..MaxAggLen}

\* -------------------------------------------------------------- Init
InitFetchState ==
    /\ fpc = "idle" /\ jql = "" /\ max_results = 0 /\ all_issues = <<>>
    /\ next_page_token = NoToken /\ req = NoReq /\ result = <<>> /\ exc = "none"
    /\ nreq = 0 /\ received = <<>> /\ last_resp = NoResp
    /\ all_ok = TRUE /\ well_behaved = TRUE /\ nonempty_pages = TRUE

InitMainState ==
    /\ data_dir = FALSE
    /\ issues = <<>> /\ filter_ids = <<>> /\ fidx = 0 /\ filter_results = <<>>
    /\ exit_code = -1
    /\ http_total = 0 /\ fstatus = <<>> /\ fsearch = <<>>

InitAggState ==
    /\ agg_pc = "idle" /\ agg_in = <<>> /\ agg_i = 0
    /\ agg_acc = EmptyAggregate /\ agg_out = AggregateResult(EmptyAggregate, <<>>)

\* A run of the script: python extract_jira.py
InitMain ==
    /\ url_set \in BOOLEAN /\ email_set \in BOOLEAN /\ token_set \in BOOLEAN
    /\ api_version \in {"3", "2"}
    /\ JIRA_FILTER_IDS \in FilterIdLists
    /\ \E sv \in MainServers : server_n = sv[1] /\ server_page = sv[2]
    /\ server_surrogate \in SurrogatePlaces
    /\ issues_json \in OldFiles /\ filters_json = issues_json
    /\ mpc = "start"
    /\ InitFetchState /\ InitMainState /\ InitAggState

\* A direct call of fetch_all_issues(jql, max_results)
InitFetch ==
    /\ url_set \in BOOLEAN /\ email_set \in BOOLEAN /\ token_set \in BOOLEAN
    /\ api_version \in {"3", "2"}
    /\ JIRA_FILTER_IDS = <<>>
    /\ server_n \in ServerSizes
    /\ server_page \in ServerPageLimits
    /\ server_surrogate \in SurrogatePlaces
    /\ issues_json = [state |-> "absent"] /\ filters_json = [state |-> "absent"]
    /\ mpc = "idle"
    /\ InitFetchState /\ InitMainState /\ InitAggState

\* A direct call of aggregate_for_dashboard(issues)
InitAgg ==
    /\ url_set = TRUE /\ email_set = TRUE /\ token_set = TRUE
    /\ api_version = "3"
    /\ JIRA_FILTER_IDS = <<>>
    /\ server_n = 0
    /\ server_page = 1
    /\ server_surrogate = 0
    /\ issues_json = [state |-> "absent"] /\ filters_json = [state |-> "absent"]
    /\ mpc = "idle"
    /\ InitFetchState /\ InitMainState
    /\ agg_pc = "idle" /\ agg_in \in AggInputs /\ agg_i = 0
    /\ agg_acc = EmptyAggregate /\ agg_out = AggregateResult(EmptyAggregate, <<>>)

\* ------------------------------------------------- fetch_all_issues
\* lines 52-61: entry of fetch_all_issues(j, maxr), up to the choice of mode
FetchEntry(j, maxr) ==
    /\ jql' = DefaultJql(j)
    /\ max_results' = maxr
    /\ all_issues' = <<>>
    /\ next_page_token' = NoToken
    /\ req' = NoReq
    /\ result' = <<>>
    /\ nreq' = 0 /\ received' = <<>> /\ last_resp' = NoResp
    /\ all_ok' = TRUE /\ well_behaved' = TRUE /\ nonempty_pages' = TRUE
    /\ IF ConfigOK(url_set, email_set, token_set)
       THEN fpc' = "loop" /\ exc' = exc /\ exit_code' = exit_code
       ELSE fpc' = "exited" /\ exc' = "SystemExit" /\ exit_code' = 1

\* The search requests issued for the filter being processed.
CountSearch ==
    IF mpc = "fetching_filter"
    THEN [fsearch EXCEPT ![fidx] = @ + 1]
    ELSE fsearch

\* lines 65-80 and 116: the top of the cursor loop.  While the while condition
\* holds the next request is built and sent; once it fails the call returns.
CursorLoop ==
    /\ fpc = "loop"
    /\ api_version = "3"
    /\ IF WhileCond(Len(all_issues), max_results)
       THEN /\ req' = CursorParams(jql, Len(all_issues), max_results,
                                   next_page_token)
            /\ fpc' = "awaiting"
            /\ nreq' = nreq + 1
            /\ http_total' = http_total + 1
            /\ fsearch' = CountSearch
            /\ result' = result
       ELSE /\ result' = ReturnSlice(all_issues, max_results)
            /\ fpc' = "returned"
            /\ UNCHANGED <<req, nreq, http_total, fsearch>>
    /\ UNCHANGED <<jql, max_results, all_issues, next_page_token, exc>>
    /\ UNCHANGED <<received, last_resp, all_ok, well_behaved, nonempty_pages>>
    /\ UNCHANGED <<cfgVars, mainVars, fstatus, aggVars>>

\* An exception leaves fetch_all_issues (and main, when main made the call).
FetchRaises(kind, status) ==
    /\ fpc' = "raised"
    /\ exc' = kind
    /\ mpc' = Unwind(mpc)
    /\ exit_code' = IF mpc = "idle" THEN exit_code ELSE 1
    /\ last_resp' = [status |-> status, json |-> FALSE, empty |-> TRUE,
                     nextPageToken |-> NoToken]
    /\ all_ok' = FALSE
    /\ well_behaved' = FALSE
    /\ UNCHANGED <<jql, max_results, all_issues, next_page_token, req, result>>
    /\ UNCHANGED <<nreq, received, nonempty_pages>>
    /\ UNCHANGED <<data_dir, issues, filter_ids, fidx, filter_results,
                   issues_json, filters_json>>
    /\ UNCHANGED <<cfgVars, runVars, aggVars>>

\* lines 81-84: a status for which raise_for_status raises
SearchHttpError ==
    /\ fpc = "awaiting"
    /\ \E status \in SearchStatuses :
          /\ status # 200
          /\ RaisesForStatus(status)
          /\ FetchRaises("HTTPError", status)

\* The statuses whose response reaches resp.json() (line 86): 200, and the
\* statuses other than 200 for which raise_for_status does not raise.
ParsedStatuses == {s \in SearchStatuses : ~(s # 200 /\ RaisesForStatus(s))}

\* lines 85-89: the body is not JSON
SearchBadJson ==
    /\ fpc = "awaiting"
    /\ \E status \in ParsedStatuses : FetchRaises("JSONDecodeError", status)

\* The sizes of the page the server may serve from position pos to a request
\* for r records: a page of its own limit cut to the request, a page of its
\* own limit whatever the request asked for, or an empty page; never more
\* records than it holds from pos on.
Remaining(pos) == Max(server_n - pos + 1, 0)
PageSizes(pos, r) ==
    {0, Min(Min(server_page, r), Remaining(pos)), Min(server_page, Remaining(pos))}

\* lines 81-94 (and 116 after the break): the body is JSON; its page is
\* accumulated, its cursor kept, and the loop breaks or goes on
SearchPage ==
    /\ fpc = "awaiting"
    /\ \E status \in ParsedStatuses :
       \E k \in PageSizes(CursorPos(req.nextPageToken), req.maxResults) :
       \E tok \in {NoToken, CursorPos(req.nextPageToken) + k} :
          LET pos == CursorPos(req.nextPageToken)
              page == ServerPage(pos, k)
              newall == Extend(all_issues, page)
              last == pos + k > server_n
          IN  /\ all_issues' = newall
              /\ next_page_token' = tok
              /\ IF BreakCond(tok, page)
                 THEN fpc' = "returned" /\ result' = ReturnSlice(newall, max_results)
                 ELSE fpc' = "loop" /\ result' = result
              /\ received' = received \o page
              /\ last_resp' = [status |-> status, json |-> TRUE, empty |-> (k = 0),
                               nextPageToken |-> tok]
              /\ all_ok' = (all_ok /\ status = 200)
              /\ well_behaved' = (/\ well_behaved
                                  /\ status = 200
                                  /\ k <= req.maxResults
                                  /\ (tok # NoToken) = ~last)
              /\ nonempty_pages' = (nonempty_pages /\ (k > 0 \/ pos > server_n))
    /\ UNCHANGED <<jql, max_results, req, exc, nreq>>
    /\ UNCHANGED <<cfgVars, mainVars, runVars, aggVars>>

\* lines 95-106: offset mode.  The first iteration builds the parameters and
\* then evaluates the undefined name `headers` (line 106) while building the
\* arguments of requests.get: NameError, before any request is sent.  Lines
\* 107-114 are never reached.
OffsetIteration ==
    /\ fpc = "loop"
    /\ api_version # "3"
    /\ fpc' = "raised"
    /\ exc' = "NameError"
    /\ mpc' = Unwind(mpc)
    /\ exit_code' = IF mpc = "idle" THEN exit_code ELSE 1
    /\ UNCHANGED <<jql, max_results, all_issues, next_page_token, req, result>>
    /\ UNCHANGED <<data_dir, issues, filter_ids, fidx, filter_results,
                   issues_json, filters_json>>
    /\ UNCHANGED <<cfgVars, histVars, runVars, aggVars>>

\* The caller took the returned list: the frame of fetch_all_issues is gone.
FramePopped ==
    /\ fpc' = "idle" /\ jql' = "" /\ max_results' = 0 /\ all_issues' = <<>>
    /\ next_page_token' = NoToken /\ req' = NoReq /\ result' = <<>>
    /\ nreq' = 0 /\ received' = <<>> /\ last_resp' = NoResp
    /\ all_ok' = TRUE /\ well_behaved' = TRUE /\ nonempty_pages' = TRUE
    /\ UNCHANGED exc

\* A direct call fetch_all_issues(j, maxr)
CallFetch ==
    /\ mpc = "idle"
    /\ fpc = "idle"
    /\ \E j \in JqlInputs : \E maxr \in MaxResultsInputs : FetchEntry(j, maxr)
    /\ UNCHANGED <<mpc, data_dir, issues, filter_ids, fidx, filter_results,
                   issues_json, filters_json>>
    /\ UNCHANGED <<cfgVars, runVars, aggVars>>

FetchSteps ==
    \/ CursorLoop
    \/ SearchHttpError
    \/ SearchBadJson
    \/ SearchPage
    \/ OffsetIteration

NextFetch == CallFetch \/ FetchSteps
SpecFetch == InitFetch /\ [][NextFetch]_vars

\* ------------------------------------------------------------- main
\* lines 196-201 (with 52-61): create DATA_DIR and call fetch_all_issues()
MainStart ==
    /\ mpc = "start"
    /\ data_dir' = TRUE
    /\ FetchEntry(JqlNone, DEFAULT_MAX_RESULTS)
    /\ mpc' = IF ConfigOK(url_set, email_set, token_set)
              THEN "fetching_main" ELSE "exit1"
    /\ UNCHANGED <<issues, filter_ids, fidx, filter_results, issues_json,
                   filters_json>>
    /\ UNCHANGED <<cfgVars, runVars, aggVars>>

\* A main that writes issues.json as soon as the main fetch returned, before
\* the filters are fetched.
MainAfterFetchWritesEarly ==
    /\ mpc = "fetching_main"
    /\ fpc = "returned"
    /\ issues' = result
    /\ filter_ids' = ParseFilterIds(JIRA_FILTER_IDS)
    /\ filter_results' = <<>>
    /\ fidx' = 1
    /\ fstatus' = [i \in 1..Len(ParseFilterIds(JIRA_FILTER_IDS)) |-> 0]
    /\ fsearch' = [i \in 1..Len(ParseFilterIds(JIRA_FILTER_IDS)) |-> 0]
    /\ mpc' = "filters"
    /\ FramePopped
    /\ issues_json' =
          DumpedFile([issues |-> NormalizeAll(result),
                      aggregates |-> aggregate_for_dashboard(NormalizeAll(result)),
                      last_updated |-> LastUpdated(result)],
                     IssuesEncodable(NormalizeAll(result)))
    /\ UNCHANGED <<data_dir, filters_json, exit_code, http_total>>
    /\ UNCHANGED <<cfgVars, aggVars>>

\* lines 201-206: the main fetch returned; parse the filter identifiers
MainAfterFetch ==
    /\ mpc = "fetching_main"
    /\ fpc = "returned"
    /\ issues' = result
    /\ filter_ids' = ParseFilterIds(JIRA_FILTER_IDS)
    /\ filter_results' = <<>>
    /\ fidx' = 1
    /\ fstatus' = [i \in 1..Len(ParseFilterIds(JIRA_FILTER_IDS)) |-> 0]
    /\ fsearch' = [i \in 1..Len(ParseFilterIds(JIRA_FILTER_IDS)) |-> 0]
    /\ mpc' = "filters"
    /\ FramePopped
    /\ UNCHANGED <<data_dir, issues_json, filters_json, exit_code, http_total>>
    /\ UNCHANGED <<cfgVars, aggVars>>

\* lines 206-208, 140, 121-123: the next filter's lookup request is sent
FilterRequest ==
    /\ mpc = "filters"
    /\ fidx <= Len(filter_ids)
    /\ http_total' = http_total + 1
    /\ mpc' = "resolving"
    /\ UNCHANGED <<data_dir, issues, filter_ids, fidx, filter_results,
                   issues_json, filters_json, exit_code, fstatus, fsearch>>
    /\ UNCHANGED <<cfgVars, fetchVars, histVars, aggVars>>

\* line 209 for a filter whose fetch_filter_issues returned raw
StoreFilter(raw) ==
    /\ filter_results' = DictSet(filter_results, filter_ids[fidx], NormalizeAll(raw))
    /\ fidx' = fidx + 1
    /\ mpc' = "filters"

\* lines 124-127, 141-143 (with 52-61), 209: the lookup is answered.  Without
\* a JQL the filter's result is empty and main goes on to the next filter;
\* with one, fetch_all_issues is called for it.
FilterResponse ==
    /\ mpc = "resolving"
    /\ \E status \in FilterStatuses : \E body \in FilterBodies :
          /\ fstatus' = [fstatus EXCEPT ![fidx] = status]
          /\ IF JqlFalsy(FilterJql(status, body))
             THEN /\ StoreFilter(<<>>)
                  /\ UNCHANGED <<fetchVars, histVars, exit_code>>
             ELSE /\ FetchEntry(EnsureBoundedJql(FilterJql(status, body)),
                                FILTER_MAX_RESULTS)
                  /\ mpc' = IF ConfigOK(url_set, email_set, token_set)
                            THEN "fetching_filter" ELSE "exit1"
                  /\ UNCHANGED <<fidx, filter_results>>
    /\ UNCHANGED <<data_dir, issues, filter_ids, issues_json, filters_json,
                   http_total, fsearch>>
    /\ UNCHANGED <<cfgVars, aggVars>>

\* line 126: the lookup is answered 200 with a body that is not JSON
FilterBadJson ==
    /\ mpc = "resolving"
    /\ fstatus' = [fstatus EXCEPT ![fidx] = 200]
    /\ exc' = "JSONDecodeError"
    /\ mpc' = "raised"
    /\ exit_code' = 1
    /\ UNCHANGED <<fpc, jql, max_results, all_issues, next_page_token, req, result>>
    /\ UNCHANGED <<data_dir, issues, filter_ids, fidx, filter_results,
                   issues_json, filters_json, http_total, fsearch>>
    /\ UNCHANGED <<cfgVars, histVars, aggVars>>

\* lines 143, 208-209: the filter's fetch returned
FilterAfterFetch ==
    /\ mpc = "fetching_filter"
    /\ fpc = "returned"
    /\ StoreFilter(result)
    /\ FramePopped
    /\ UNCHANGED <<data_dir, issues, filter_ids, issues_json, filters_json,
                   exit_code>>
    /\ UNCHANGED <<cfgVars, runVars, aggVars>>

\* lines 211-224: normalize, aggregate, write issues.json
\* When json.dump cannot encode a string the UnicodeEncodeError leaves main:
\* the file is left cut off and the run ends with exit code 1.
MainWriteIssues ==
    /\ mpc = "filters"
    /\ fidx > Len(filter_ids)
    /\ issues_json' =
          DumpedFile([issues |-> NormalizeAll(issues),
                      aggregates |-> aggregate_for_dashboard(NormalizeAll(issues)),
                      last_updated |-> LastUpdated(issues)],
                     IssuesEncodable(NormalizeAll(issues)))
    /\ IF IssuesEncodable(NormalizeAll(issues))
       THEN mpc' = "write_filters" /\ exc' = exc /\ exit_code' = exit_code
       ELSE mpc' = "raised" /\ exc' = "UnicodeEncodeError" /\ exit_code' = 1
    /\ UNCHANGED <<data_dir, issues, filter_ids, fidx, filter_results,
                   filters_json>>
    /\ UNCHANGED <<fpc, jql, max_results, all_issues, next_page_token, req, result>>
    /\ UNCHANGED <<cfgVars, histVars, runVars, aggVars>>

\* lines 226-227
FiltersOutput(fr) ==
    [filters |-> [f \in DOMAIN fr |-> [issues |-> fr[f], count |-> Len(fr[f])]]]

\* Are all the strings of every filter's issues encodable
FiltersEncodable(fr) == \A f \in DOMAIN fr : IssuesEncodable(fr[f])

\* lines 226-232: write filters.json; main returns, or the UnicodeEncodeError
\* of json.dump leaves main with filters.json cut off
MainWriteFilters ==
    /\ mpc = "write_filters"
    /\ filters_json' =
          DumpedFile(FiltersOutput(filter_results), FiltersEncodable(filter_results))
    /\ IF FiltersEncodable(filter_results)
       THEN mpc' = "done" /\ exc' = exc /\ exit_code' = 0
       ELSE mpc' = "raised" /\ exc' = "UnicodeEncodeError" /\ exit_code' = 1
    /\ UNCHANGED <<data_dir, issues, filter_ids, fidx, filter_results, issues_json>>
    /\ UNCHANGED <<fpc, jql, max_results, all_issues, next_page_token, req, result>>
    /\ UNCHANGED <<cfgVars, histVars, runVars, aggVars>>

MainSteps ==
    \/ MainStart
    \/ MainAfterFetch
    \/ FilterRequest
    \/ FilterResponse
    \/ FilterBadJson
    \/ FilterAfterFetch
    \/ MainWriteIssues
    \/ MainWriteFilters

NextMain == MainSteps \/ FetchSteps
SpecMain == InitMain /\ [][NextMain]_vars

\* ------------------------------------------ aggregate_for_dashboard
\* lines 169-174: the call; the four mappings start empty
AggCall ==
    /\ agg_pc = "idle"
    /\ agg_acc' = EmptyAggregate
    /\ agg_i' = 1
    /\ agg_pc' = "loop"
    /\ UNCHANGED <<agg_in, agg_out>>
    /\ UNCHANGED <<cfgVars, fetchVars, histVars, mainVars, runVars>>

\* lines 176-185: one iteration over the next issue
AggIterate ==
    /\ agg_pc = "loop"
    /\ agg_i <= Len(agg_in)
    /\ agg_acc' = AggregateStep(agg_acc, agg_in[agg_i])
    /\ agg_i' = agg_i + 1
    /\ UNCHANGED <<agg_pc, agg_in, agg_out>>
    /\ UNCHANGED <<cfgVars, fetchVars, histVars, mainVars, runVars>>

\* lines 187-193: the loop is over; the result is returned
AggReturn ==
    /\ agg_pc = "loop"
    /\ agg_i > Len(agg_in)
    /\ agg_out' = AggregateResult(agg_acc, agg_in)
    /\ agg_pc' = "returned"
    /\ UNCHANGED <<agg_in, agg_i, agg_acc>>
    /\ UNCHANGED <<cfgVars, fetchVars, histVars, mainVars, runVars>>

NextAgg == AggCall \/ AggIterate \/ AggReturn
SpecAgg == InitAgg /\ [][NextAgg]_vars

\* ============================================================ claims
CursorCallReturned == api_version = "3" /\ fpc = "returned"

\* C1 as stated: a cursor-mode call whose responses were all successful
\* returns at most max_results records, a prefix of the pages it received
\* in arrival order.
C1_LengthAtMostMaxResults ==
    (CursorCallReturned /\ all_ok) =>
        /\ Len(result) <= max_results
        /\ IsPrefix(result, received)

\* C1 amended: a cursor-mode call whose responses were all successful returns
\* at most max(max_results, 0) records, a prefix of the concatenation, in
\* arrival order, of the pages it received.
C1_PrefixOfReceived ==
    (CursorCallReturned /\ all_ok) =>
        /\ Len(result) <= Max(max_results, 0)
        /\ IsPrefix(result, received)

\* C1 witness: a page larger than the request was received and cut.
C1_OversizePageCut ==
    /\ CursorCallReturned /\ all_ok
    /\ max_results > 0
    /\ Len(received) > max_results
    /\ Len(result) = max_results

\* list is the first n records of the server, in order (none when n <= 0).
FirstRecords(list, n) ==
    /\ Len(list) = Max(n, 0)
    /\ \A i \in 1..Len(list) : list[i] = RawIssue(i)

\* C2 as stated: against a server that serves its N records in order in pages
\* of at most the requested size, with a cursor on every page but the last,
\* the call returns exactly the first min(N, M) records.
C2_FirstMinRecords ==
    (CursorCallReturned /\ well_behaved) =>
        FirstRecords(result, Min(server_n, max_results))

\* C2 amended: when, in addition, no page is empty while records remain, the
\* call returns exactly the first min(N, M) records in order.
C2_FirstMinRecordsNonEmptyPages ==
    (CursorCallReturned /\ well_behaved /\ nonempty_pages) =>
        FirstRecords(result, Min(server_n, max_results))

\* C2 witness: 300 records served in 3 pages of 100 to a call with
\* max_results = 1000.
C2_ThreeFullPages ==
    /\ CursorCallReturned /\ well_behaved /\ nonempty_pages
    /\ server_n = 3 * max_per_page
    /\ max_results = DEFAULT_MAX_RESULTS
    /\ nreq = 3
    /\ Len(result) = 3 * max_per_page

\* The last response was read, and it ends the loop: no cursor, no records,
\* or max_results reached.
LastParsed == nreq > 0 /\ last_resp.json
StopAfterLast ==
    \/ last_resp.nextPageToken = NoToken
    \/ last_resp.empty
    \/ Len(all_issues) >= max_results

\* C3: within a cursor-mode call a further request is issued only after a
\* response that carried a cursor and records and left the count below
\* max_results, and it carries that cursor; after such a response the call
\* does not return, and its next step is that request.
C3_NextRequestFollowsCursor ==
    [][ /\ (nreq > 0 /\ nreq' = nreq + 1) =>
             /\ LastParsed
             /\ ~StopAfterLast
             /\ req'.nextPageToken = last_resp.nextPageToken
        /\ (api_version = "3" /\ fpc = "loop" /\ LastParsed /\ ~StopAfterLast) =>
             /\ nreq' = nreq + 1
             /\ fpc' = "awaiting"
             /\ req'.nextPageToken = last_resp.nextPageToken
        /\ (fpc = "awaiting" /\ fpc' = "returned") => StopAfterLast'
        /\ (fpc = "awaiting" /\ fpc' = "loop") =>
             (LastParsed' /\ last_resp'.nextPageToken # NoToken /\ ~last_resp'.empty)
      ]_vars

\* C3 witness: a follow-up request carrying the previous response's cursor.
C3_FollowUpRequestSent ==
    /\ api_version = "3" /\ fpc = "awaiting"
    /\ nreq = 2
    /\ req.nextPageToken # NoToken
    /\ req.nextPageToken = last_resp.nextPageToken

\* C4: with the base URL, the email or the token unset, a run ends on the
\* fatal path with exit code 1, no HTTP request issued, no file written.
C4_MissingConfigExitsFirst ==
    (~(url_set /\ email_set /\ token_set) /\ mpc # "start") =>
        /\ mpc = "exit1"
        /\ exit_code = 1
        /\ exc = "SystemExit"
        /\ http_total = 0
        /\ issues_json \in OldFiles
        /\ filters_json \in OldFiles

\* C4 witness: a run with only the token unset has exited.
C4_TokenUnsetExited ==
    url_set /\ email_set /\ ~token_set /\ mpc = "exit1" /\ exit_code = 1

\* C5 as stated: once a search was answered with a status other than 200,
\* the call has raised the HTTP error and, in a run, main has ended with it.
C5_NonSuccessRaises ==
    (nreq > 0 /\ fpc # "awaiting" /\ last_resp.status # 200) =>
        /\ fpc = "raised"
        /\ exc = "HTTPError"
        /\ mpc = "raised"

FilesTouched == issues_json \notin OldFiles \/ filters_json \notin OldFiles
\* A fetch (the main one, a filter lookup or a filter's search) ended the run.
FetchFailed == exc \in {"SystemExit", "HTTPError", "JSONDecodeError", "NameError"}

\* C6: a file is created or overwritten only when the main fetch and every
\* configured filter's fetch are over and none failed; a run that a fetch
\* ended, by an exception or by exit, has left both files as it found them.
\* (The only other way a run fails is inside a write, which leaves the file
\* cut off.)
C6_WritesOnlyAfterAllFetches ==
    /\ FilesTouched =>
          /\ mpc \in {"write_filters", "done", "raised"}
          /\ ~FetchFailed
          /\ fpc = "idle"
          /\ filter_ids = ParseFilterIds(JIRA_FILTER_IDS)
          /\ fidx > Len(filter_ids)
          /\ \A i \in 1..Len(filter_ids) : fstatus[i] # 0
    /\ (FetchFailed \/ mpc = "exit1") => ~FilesTouched
    /\ (mpc \in {"raised", "exit1"} /\ ~FetchFailed) =>
          (exc = "UnicodeEncodeError" /\ FilesTouched)

\* C6 witness: the second filter's search failed after the main fetch and
\* the first filter were done; the files of the earlier run are untouched.
C6_LateFailureLeavesFiles ==
    /\ mpc = "raised" /\ exc = "HTTPError"
    /\ fidx = 2 /\ fsearch[2] > 0
    /\ issues_json.state = "old" /\ filters_json.state = "old"

SoftFailed(i) == fstatus[i] \notin {0, 200}
EmptyEntry == [issues |-> <<>>, count |-> 0]
ReplacedLater(i) ==
    \E j \in (i + 1)..Len(filter_ids) : filter_ids[j] = filter_ids[i] /\ fidx > j

\* C7 as stated: a filter whose lookup got a non-success status gets an empty
\* entry with count 0 and no search request, and the run still processes the
\* other filters and writes both files.
C7_SoftFailureRunCompletes ==
    \A i \in 1..Len(filter_ids) :
        SoftFailed(i) =>
            /\ fsearch[i] = 0
            /\ (mpc \in {"done", "raised", "exit1"}) =>
                  /\ mpc = "done"
                  /\ issues_json.state = "written"
                  /\ filters_json.state = "written"
                  /\ filters_json.content.filters[filter_ids[i]] = EmptyEntry

\* C7 amended: a filter whose lookup got a non-success status gets no search
\* request and an empty entry, replaced only if the same identifier is
\* configured again later; main goes on to the next filter; a run that
\* completes has looked up every filter and written both files, with count 0
\* for that entry.
C7_SoftFailureEmptyEntry ==
    \A i \in 1..Len(filter_ids) :
        SoftFailed(i) =>
            /\ fsearch[i] = 0
            /\ fidx > i
            /\ filter_ids[i] \in DOMAIN filter_results
            /\ ~ReplacedLater(i) => filter_results[filter_ids[i]] = <<>>
            /\ mpc = "done" =>
                  /\ \A j \in 1..Len(filter_ids) : fstatus[j] # 0
                  /\ issues_json.state = "written"
                  /\ filters_json.state = "written"
                  /\ ~ReplacedLater(i) =>
                        filters_json.content.filters[filter_ids[i]] = EmptyEntry

\* C7 witness: the first filter's lookup got 404, the second filter was
\* fetched, and the run completed with both entries written.
C7_OtherFilterStillFetched ==
    /\ mpc = "done"
    /\ Len(filter_ids) = 2 /\ filter_ids[1] # filter_ids[2]
    /\ fstatus[1] = 404 /\ fstatus[2] = 200 /\ fsearch[2] > 0
    /\ filters_json.content.filters[filter_ids[1]] = EmptyEntry
    /\ filters_json.content.filters[filter_ids[2]].count > 0

\* C8 as stated: an offset-mode call issues search requests (offset 0 first)
\* and ends by returning the accumulated records.
C8_OffsetModeFetches ==
    (api_version # "3" /\ fpc \in {"returned", "raised"}) =>
        /\ nreq >= 1
        /\ exc # "NameError"

CountOf(list, field, k) == Cardinality({i \in 1..Len(list) : list[i][field] = k})
CountsIssues(d, list, field) ==
    /\ DOMAIN d = {list[i][field] : i \in 1..Len(list)}
    /\ \A k \in DOMAIN d : d[k] = CountOf(list, field, k)
    /\ DictSum(d) = Len(list)

\* C9: the returned total is the length of the input, each of the four
\* mappings sums to it, and each maps a value to the number of issues that
\* have that value in the field.
C9_AggregateCounts ==
    agg_pc = "returned" =>
        /\ agg_out.total = Len(agg_in)
        /\ CountsIssues(agg_out.by_status, agg_in, "status")
        /\ CountsIssues(agg_out.by_type, agg_in, "issuetype")
        /\ CountsIssues(agg_out.by_assignee, agg_in, "assignee")
        /\ CountsIssues(agg_out.by_priority, agg_in, "priority")

\* C9 witness: three issues, two of them sharing a status.
C9_SharedStatusCounted ==
    /\ agg_pc = "returned"
    /\ Len(agg_in) = 3
    /\ Cardinality(DOMAIN agg_out.by_status) = 2
    /\ \E k \in DOMAIN agg_out.by_status : agg_out.by_status[k] = 2

\* C10: a cursor-mode call issues at most max(max_results, 0) search
\* requests, because every response after which the loop goes on has added at
\* least one record.
C10_RequestsBoundedByMaxResults ==
    /\ nreq <= Max(max_results, 0)
    /\ (api_version = "3" /\ fpc \in {"loop", "awaiting"}) =>
          Len(all_issues) >= nreq - (IF fpc = "awaiting" THEN 1 ELSE 0)
    /\ fpc = "awaiting" => Len(all_issues) < max_results

\* C10 witness: the server returned a cursor on every page, and the call made
\* exactly max_results = 50 requests before it returned.
C10_CursorForeverStopsAtMax ==
    /\ CursorCallReturned
    /\ max_results = max_per_page \div 2
    /\ nreq = max_results
    /\ last_resp.nextPageToken # NoToken

====
